---- MODULE Spec2Model ----
(***************************************************************************)
(* Model of the text-to-SQL pipeline of src/app/page.tsx: the server       *)
(* component Page (schema introspection, embedding with one throttle       *)
(* retry, context retrieval, completion, sanitizer, guardrail, execution   *)
(* and the one-shot repair round) and the pure sanitizer cleanSql.         *)
(*                                                                         *)
(* Strings of the program are sequences of characters (one-character      *)
(* strings, and Backtick for the grave accent), so that the regular        *)
(* expressions and String methods of the source are computed character by  *)
(* character.                                                              *)
(***************************************************************************)
EXTENDS Integers, Sequences, FiniteSets, TLC

(***************************************************************************)
(* Character classes of the JavaScript regular expressions.                *)
(***************************************************************************)
LowerLetters ==
  <<"a","b","c","d","e","f","g","h","i","j","k","l","m",
    "n","o","p","q","r","s","t","u","v","w","x","y","z">>

UpperLetters ==
  <<"A","B","C","D","E","F","G","H","I","J","K","L","M",
    "N","O","P","Q","R","S","T","U","V","W","X","Y","Z">>

Digits == {"0","1","2","3","4","5","6","7","8","9"}

Range(f) == { f[i] : i \in DOMAIN f }

\* \w : [A-Za-z0-9_]
WordChars == Range(LowerLetters) \cup Range(UpperLetters) \cup Digits \cup {"_"}

\* line terminators: what ^ and $ see under the m flag, what . does not match
LineTerminators == {"\n", "\r"}

\* \s : white space and line terminators
SpaceChars == {" ", "\t"} \cup LineTerminators

RECURSIVE IndexIn(_, _, _)
IndexIn(f, c, i) ==
  IF i > Len(f) THEN 0
  ELSE IF f[i] = c THEN i ELSE IndexIn(f, c, i + 1)

\* String.prototype.toLowerCase, one character
LowerChar(c) ==
  LET k == IndexIn(UpperLetters, c, 1)
  IN  IF k = 0 THEN c ELSE LowerLetters[k]

\* String.prototype.toLowerCase
toLowerCase(s) == [i \in 1..Len(s) |-> LowerChar(s[i])]

\* does s carry the literal lit at position i (1-based)?
StartsAt(s, i, lit) ==
  /\ i >= 1
  /\ i + Len(lit) - 1 <= Len(s)
  /\ \A k \in 1..Len(lit) : s[i + k - 1] = lit[k]

\* the same under the i flag (lit is given in lower case)
StartsAtCI(s, i, lit) == StartsAt(toLowerCase(s), i, lit)

\* String.prototype.includes
includes(s, lit) == \E i \in 1..(Len(s) + 1) : StartsAt(s, i, lit)

\* greedy X* from position i: the first position at or after i whose
\* character is not in class (Len(s) + 1 when the run reaches the end)
RECURSIVE SkipWhile(_, _, _)
SkipWhile(s, i, class) ==
  IF i <= Len(s) /\ s[i] \in class
  THEN SkipWhile(s, i + 1, class)
  ELSE i

\* the last position at or before i whose character is not in class (0 if none)
RECURSIVE SkipBack(_, _, _)
SkipBack(s, i, class) ==
  IF i >= 1 /\ s[i] \in class
  THEN SkipBack(s, i - 1, class)
  ELSE i

Drop(s, n) == SubSeq(s, n + 1, Len(s))

Take(s, n) == SubSeq(s, 1, n)

\* String.prototype.trim
trim(s) ==
  LET a == SkipWhile(s, 1, SpaceChars)
      b == SkipBack(s, Len(s), SpaceChars)
  IN  IF a > b THEN <<>> ELSE SubSeq(s, a, b)

(***************************************************************************)
(* cleanSql, one operator per replace call.                                *)
(***************************************************************************)
\* the grave accent U+0060 (the lexer of TLA+ has no literal for it)
Backtick == "BACKTICK"

Fence == <<Backtick, Backtick, Backtick>>

\* s.replace(/^```(?:\w+)?\s*/i, "")
StripLeadingFence(s) ==
  IF StartsAt(s, 1, Fence)
  THEN LET w == SkipWhile(s, 4, WordChars)
           e == SkipWhile(s, w, SpaceChars)
       IN  Drop(s, e - 1)
  ELSE s

\* s.replace(/\s*```$/i, "")
StripTrailingFence(s) ==
  IF StartsAt(s, Len(s) - 2, Fence)
  THEN Take(s, SkipBack(s, Len(s) - 3, SpaceChars))
  ELSE s

HintDashes == <<"-","-">>

HintWord == <<"p","a","r","a","m",":">>

\* ^ under the m flag
AtLineStart(s, i) == i = 1 \/ s[i - 1] \in LineTerminators

\* /^\s*--\s*param:.*$/im tried at position i: the position of the last
\* character of the match, 0 when there is no match at i
HintMatchEnd(s, i) ==
  IF ~AtLineStart(s, i) THEN 0
  ELSE LET d == SkipWhile(s, i, SpaceChars)
       IN  IF ~StartsAt(s, d, HintDashes) THEN 0
           ELSE LET p == SkipWhile(s, d + 2, SpaceChars)
                IN  IF ~StartsAtCI(s, p, HintWord) THEN 0
                    ELSE SkipWhile(s, p + 6, Range(s) \ LineTerminators) - 1

\* s.replace(/^\s*--\s*param:.*$/gim, "") scanning from position i
RECURSIVE StripHintsFrom(_, _)
StripHintsFrom(s, i) ==
  IF i > Len(s) THEN <<>>
  ELSE LET e == HintMatchEnd(s, i)
       IN  IF e # 0
           THEN StripHintsFrom(s, e + 1)
           ELSE <<s[i]>> \o StripHintsFrom(s, i + 1)

StripHints(s) == StripHintsFrom(s, 1)

\* s.replace(/;+(\s*)$/g, "$1")
StripSemis(s) ==
  LET t == SkipBack(s, Len(s), SpaceChars)
  IN  IF t >= 1 /\ s[t] = ";"
      THEN Take(s, SkipBack(s, t, {";"})) \o Drop(s, t)
      ELSE s

cleanSql(s) ==
  trim(StripSemis(StripHints(StripTrailingFence(StripLeadingFence(s)))))

(***************************************************************************)
(* Values of the program.                                                  *)
(***************************************************************************)
\* undefined / null where a string or an array is expected
Undefined == <<"undefined">>

\* null where an object is expected (PostgrestError | null)
Null == [null |-> TRUE]

\* a ?? b
Coalesce(a, b) == IF a = Undefined THEN b ELSE a

\* an Error object with the given message
Error(m) == [kind |-> "Error", message |-> m]

errMessage(e) ==
  IF e.kind = "Error" THEN e.message
  ELSE IF e.kind = "string" THEN e.value
  ELSE e.json

(***************************************************************************)
(* voyageEmbed: the throttle test of the catch block and the messages.     *)
(***************************************************************************)
EmbeddingFailed ==
  <<"E","m","b","e","d","d","i","n","g"," ","f","a","i","l","e","d",":"," ">>

\* sleep(25000)
BackoffMs == 25000

IsThrottle_caseSensitive(e) ==
  LET m == errMessage(e)
  IN  \/ includes(m, <<"4","2","9">>)
      \/ includes(m, <<"r","a","t","e">>)
      \/ includes(m, <<"r","e","d","u","c","e","d"," ","r","a","t","e">>)
      \/ includes(m, <<"p","a","y","m","e","n","t"," ","m","e","t","h","o","d">>)

IsThrottle_always(e) == TRUE

IsThrottle(e) ==
  LET m == toLowerCase(errMessage(e))
  IN  \/ includes(m, <<"4","2","9">>)
      \/ includes(m, <<"r","a","t","e">>)
      \/ includes(m, <<"r","e","d","u","c","e","d"," ","r","a","t","e">>)
      \/ includes(m, <<"p","a","y","m","e","n","t"," ","m","e","t","h","o","d">>)

\* what the embedding service answers to one outbound call: fetch or
\* res.json() throws (threw), or a response with res.ok, its status, its
\* JSON body as JSON.stringify prints it (Undefined for null) and its
\* data[0].embedding (Undefined when absent)
EmbedReply(threw, ok, status, json, embedding) ==
  [threw |-> threw, ok |-> ok, status |-> status, json |-> json,
   embedding |-> embedding]

Vec1 == <<"v","1">>

EmbedResponses ==
  { EmbedReply(Undefined, TRUE, <<"2","0","0">>, <<"{","d","}">>, Vec1),
    EmbedReply(Undefined, TRUE, <<"2","0","0">>, <<"{","}">>, Undefined),
    EmbedReply(Undefined, FALSE, <<"4","2","9">>, Undefined, Undefined),
    EmbedReply(Undefined, FALSE, <<"4","2","9">>,
               <<"R","a","t","e"," ","l","i","m","i","t">>, Undefined),
    EmbedReply(Undefined, FALSE, <<"4","0","2">>,
               <<"P","a","y","m","e","n","t"," ","m","e","t","h","o","d">>,
               Undefined),
    EmbedReply(Undefined, FALSE, <<"4","0","1">>,
               <<"b","a","d"," ","k","e","y">>, Undefined),
    EmbedReply(<<"f","e","t","c","h"," ","f","a","i","l","e","d">>,
               FALSE, Undefined, Undefined, Undefined) }

\* the inner function call of voyageEmbed on one reply:
\* [threw |-> FALSE, value |-> embedding] or [threw |-> TRUE, error |-> e]
call(r) ==
  IF r.threw # Undefined
  THEN [threw |-> TRUE, error |-> Error(r.threw), value |-> Undefined]
  ELSE IF ~r.ok \/ r.embedding = Undefined
  THEN [threw |-> TRUE,
        error |-> Error(EmbeddingFailed \o
                        (IF r.json # Undefined THEN r.json ELSE r.status)),
        value |-> Undefined]
  ELSE [threw |-> FALSE, error |-> Error(<<>>), value |-> r.embedding]

(***************************************************************************)
(* groqSQL.                                                                *)
(***************************************************************************)
NoSqlFromLlm == <<"N","o"," ","S","Q","L"," ","f","r","o","m"," ","L","L","M">>

\* what the completion service answers: fetch or res.json() throws, or
\* choices[0].message.content (Undefined when absent)
GroqReply(threw, content) == [threw |-> threw, content |-> content]

\* groqSQL on one reply: the returned string or the thrown error
groqSQL(r) ==
  IF r.threw # Undefined
  THEN [threw |-> TRUE, error |-> Error(r.threw), value |-> Undefined]
  ELSE LET sql == IF r.content = Undefined THEN Undefined ELSE trim(r.content)
       IN  IF sql = Undefined \/ sql = <<>>
           THEN [threw |-> TRUE, error |-> Error(NoSqlFromLlm),
                 value |-> Undefined]
           ELSE [threw |-> FALSE, error |-> Error(<<>>), value |-> sql]

(***************************************************************************)
(* The guardrail of Page.                                                  *)
(***************************************************************************)
IsWordAt(s, i) == i >= 1 /\ i <= Len(s) /\ s[i] \in WordChars

\* \b between position i - 1 and position i
WordBoundary(s, i) == IsWordAt(s, i - 1) # IsWordAt(s, i)

NameWord == <<"n","a","m","e">>

NextAppointmentWord ==
  <<"n","e","x","t","_","a","p","p","o","i","n","t","m","e","n","t">>

\* /\b[^_.]name\b/i.test(s)
TestBareName(s) ==
  \E i \in 1..Len(s) :
    /\ WordBoundary(s, i)
    /\ s[i] \notin {"_", "."}
    /\ StartsAtCI(s, i + 1, NameWord)
    /\ WordBoundary(s, i + 5)

\* /\bnext_appointment\b/i.test(s)
TestNextAppointment(s) ==
  \E i \in 1..Len(s) :
    /\ WordBoundary(s, i)
    /\ StartsAtCI(s, i, NextAppointmentWord)
    /\ WordBoundary(s, i + Len(NextAppointmentWord))

\* the canonical statement of the guardrail, one element per line of the
\* template literal after trim()
CanonicalSql ==
  << "WITH next_appt AS (",
     "  SELECT p.id, p.full_name,",
     "         (SELECT a.starts_at",
     "          FROM clinical.appointments a",
     "          WHERE a.patient_id = p.id",
     "            AND a.status = 'scheduled'",
     "            AND a.starts_at >= NOW()",
     "          ORDER BY a.starts_at",
     "          LIMIT 1) AS next_starts_at",
     "  FROM clinical.patients p",
     ")",
     "SELECT id, full_name, next_starts_at",
     "FROM next_appt",
     "ORDER BY next_starts_at NULLS LAST",
     "LIMIT 5" >>

Guard(s) ==
  IF TestBareName(s) \/ TestNextAppointment(s) THEN CanonicalSql ELSE s

\* what the completion service may put into choices[0].message.content
Contents ==
  { <<"S","E","L","E","C","T"," ","i","d">>,
    <<"S","E","L","E","C","T"," ","1">>,
    <<Backtick,Backtick,Backtick,"s","q","l","\n",
      "S","E","L","E","C","T"," ","i","d",";","\n",
      Backtick,Backtick,Backtick>>,
    <<"S","E","L","E","C","T"," ","n","a","m","e">>,
    <<"S","E","L","E","C","T"," ","a",","," ","n","a","m","e">>,
    <<"S","E","L","E","C","T"," ","f","u","l","l","_","n","a","m","e">>,
    <<"n","e","x","t","_","a","p","p","o","i","n","t","m","e","n","t">>,
    CanonicalSql,
    <<" ","\n">> }

GroqResponses ==
  { GroqReply(Undefined, c) : c \in Contents \cup {Undefined} }
    \cup { GroqReply(<<"t","i","m","e","o","u","t">>, Undefined) }

(***************************************************************************)
(* The database gateway (sb.rpc): what it answers.                         *)
(***************************************************************************)
\* a PostgrestError
DbError(code, message) == [code |-> code, message |-> message]

\* a PostgrestSingleResponse {data, error}; threw is the message of a
\* failure thrown by the transport, Undefined when the call returns
RpcReply(threw, data, error) == [threw |-> threw, data |-> data, error |-> error]

repairableCodes_short ==
  { <<"4","2","7","0","3">>, <<"4","2","P","0","1">>, <<"4","2","6","0","1">> }

repairableCodes ==
  { <<"4","2","7","0","3">>, <<"4","2","P","0","1">>,
    <<"4","2","6","0","1">>, <<"4","2","8","8","3">> }

\* vendor codes the gateway may report: undefined column, table, syntax
\* error, undefined function, insufficient privilege, and the empty code
Codes ==
  { <<"4","2","7","0","3">>, <<"4","2","P","0","1">>, <<"4","2","6","0","1">>,
    <<"4","2","8","8","3">>, <<"4","2","5","0","1">>, <<>> }

Messages == { <<>>, <<"n","o"," ","c","o","l","u","m","n">> }

DbErrors == { DbError(c, m) : c \in Codes, m \in Messages }

TransportFailure == <<"f","e","t","c","h"," ","f","a","i","l","e","d">>

\* bound on the number of rows of a result in the model
MaxRows == 2

RowSets == { [i \in 1..n |-> "row"] : n \in 0..MaxRows }

ExecResponses ==
  { RpcReply(Undefined, d, Null) : d \in RowSets \cup {Undefined} }
    \cup { RpcReply(Undefined, Undefined, e) : e \in DbErrors }
    \cup { RpcReply(TransportFailure, Undefined, Null) }

Schema1 ==
  << "patients: id, full_name",
     "appointments: id, patient_id, starts_at, status" >>

SchemaResponses ==
  { RpcReply(Undefined, Schema1, Null), RpcReply(Undefined, Undefined, Null) }
    \cup { RpcReply(Undefined, Undefined, DbError(<<>>, m)) : m \in Messages }

Ctx1 == << "doc" >>

MatchSchemaPrefix == <<"m","a","t","c","h","_","s","c","h","e","m","a",":"," ">>

MatchResponses ==
  { RpcReply(Undefined, Ctx1, Null), RpcReply(Undefined, Undefined, Null),
    RpcReply(Undefined, Undefined,
             DbError(<<>>, <<"d","e","n","i","e","d">>)) }

\* retrieveContext(qVec, 6)
TopK == 6

QueryFailed == <<"Q","u","e","r","y"," ","f","a","i","l","e","d">>

(***************************************************************************)
(* The prompts: the fixed text of a template is its kind, the interpolated *)
(* values are the fields.                                                  *)
(***************************************************************************)
buildPrompt(question_, ctxs, schemaList) ==
  [kind |-> "generate", question |-> question_, ctx |-> ctxs,
   schemaWhitelist |-> schemaList]

buildRepairPrompt_resend(sql_, err, schema_, question_) ==
  [kind |-> "generate", question |-> question_, ctx |-> <<>>,
   schemaWhitelist |-> schema_]

buildRepairPrompt(sql_, err, schema_, question_) ==
  [kind |-> "repair", sql |-> sql_, dbError |-> err.message,
   schemaWhitelist |-> schema_, question |-> question_]

(***************************************************************************)
(* Page.                                                                   *)
(***************************************************************************)
\* searchParams.q: a string, an array (its first element), or absent
QueryParam(isArray, value) == [isArray |-> isArray, value |-> value]

QueryParams ==
  { QueryParam(FALSE, Undefined), QueryParam(FALSE, <<>>),
    QueryParam(FALSE, <<" ","\n">>),
    QueryParam(FALSE, <<" ","h","i"," ">>),
    QueryParam(TRUE, <<"h","i">>) }

VARIABLES
  q,            \* searchParams.q
  pc,           \* position of Page
  question, schema, qVec, ctx, prompt, sql, first, rpcErr, repairPrompt,
  repairedSql, second,
  repaired, rows, errorMsg,   \* the outcome, with sql
  embedErr,     \* e of the catch block of voyageEmbed
  thrown,       \* e of the catch block of Page
  calls,        \* the outbound calls made so far, in order
  completions,  \* the strings groqSQL has returned so far, in order
  x, once, twice, cpc   \* the sanitizer applied once and twice to x

pageVars ==
  <<q, pc, question, schema, qVec, ctx, prompt, sql, first, rpcErr,
    repairPrompt, repairedSql, second, repaired, rows, errorMsg, embedErr,
    thrown, calls, completions>>

cleanVars == <<x, once, twice, cpc>>

vars == <<pageVars, cleanVars>>

\* first and second before their execution has returned
NoReply == [none |-> TRUE, threw |-> Undefined, data |-> Undefined,
            error |-> Null]

NoPrompt == [kind |-> "none"]

NoError == [kind |-> "none"]

Call(op, arg) == [op |-> op, arg |-> arg]

\* the number of outbound calls of one kind made so far
Count(op) == Cardinality({ i \in 1..Len(calls) : calls[i].op = op })

PageInit ==
  /\ q \in QueryParams
  /\ pc = "start"
  /\ question = <<>>
  /\ schema = <<>>
  /\ qVec = Undefined
  /\ ctx = <<>>
  /\ prompt = NoPrompt
  /\ sql = <<>>
  /\ first = NoReply
  /\ rpcErr = Null
  /\ repairPrompt = NoPrompt
  /\ repairedSql = Undefined
  /\ second = NoReply
  /\ repaired = FALSE
  /\ rows = <<>>
  /\ errorMsg = <<>>
  /\ embedErr = NoError
  /\ thrown = NoError
  /\ calls = <<>>
  /\ completions = <<>>

CleanIdle ==
  /\ x = <<>>
  /\ once = <<>>
  /\ twice = <<>>
  /\ cpc = "idle"

Init == PageInit /\ CleanIdle

CatchBlock_rethrow(e) ==
  /\ thrown' = e
  /\ errorMsg' = errorMsg
  /\ pc' = "escaped"

CatchBlock_keepDbError(e) ==
  /\ thrown' = e
  /\ errorMsg' = IF rpcErr # Null THEN rpcErr.message ELSE errMessage(e)
  /\ pc' = "done"

\* catch (e) { errorMsg = errMessage(e); }
CatchBlock(e) ==
  /\ thrown' = e
  /\ errorMsg' = errMessage(e)
  /\ pc' = "done"

Start_noFetch ==
  /\ pc = "start"
  /\ question' = trim(IF q.isArray THEN q.value ELSE Coalesce(q.value, <<>>))
  /\ pc' = IF question' # <<>> THEN "voyageEmbed" ELSE "done"
  /\ UNCHANGED <<q, schema, qVec, ctx, prompt, sql, first, rpcErr,
                 repairPrompt, repairedSql, second, repaired, rows, errorMsg,
                 embedErr, thrown, calls>>
  /\ UNCHANGED completions
  /\ UNCHANGED cleanVars

Start_noTrim ==
  /\ pc = "start"
  /\ question' = (IF q.isArray THEN q.value ELSE Coalesce(q.value, <<>>))
  /\ pc' = IF question' # <<>> THEN "fetchLiveSchema" ELSE "done"
  /\ UNCHANGED <<q, schema, qVec, ctx, prompt, sql, first, rpcErr,
                 repairPrompt, repairedSql, second, repaired, rows, errorMsg,
                 embedErr, thrown, calls>>
  /\ UNCHANGED completions
  /\ UNCHANGED cleanVars

\* const question = (Array.isArray(sp?.q) ? sp.q[0] : sp?.q ?? "").trim();
\* if (question) { try { ...
Start ==
  /\ pc = "start"
  /\ question' = trim(IF q.isArray THEN q.value ELSE Coalesce(q.value, <<>>))
  /\ pc' = IF question' # <<>> THEN "fetchLiveSchema" ELSE "done"
  /\ UNCHANGED <<q, schema, qVec, ctx, prompt, sql, first, rpcErr,
                 repairPrompt, repairedSql, second, repaired, rows, errorMsg,
                 embedErr, thrown, calls>>
  /\ UNCHANGED completions
  /\ UNCHANGED cleanVars

\* const schema = await fetchLiveSchema();
FetchLiveSchema ==
  /\ pc = "fetchLiveSchema"
  /\ calls' = Append(calls, Call("fetchLiveSchema", <<>>))
  /\ \E r \in SchemaResponses :
       IF r.threw # Undefined
       THEN CatchBlock(Error(r.threw)) /\ UNCHANGED schema
       ELSE IF r.error # Null
       THEN CatchBlock(Error(r.error.message)) /\ UNCHANGED schema
       ELSE /\ schema' = Coalesce(r.data, <<>>)
            /\ pc' = "voyageEmbed"
            /\ UNCHANGED <<thrown, errorMsg>>
  /\ UNCHANGED <<q, question, qVec, ctx, prompt, sql, first, rpcErr,
                 repairPrompt, repairedSql, second, repaired, rows,
                 embedErr>>
  /\ UNCHANGED completions
  /\ UNCHANGED cleanVars

\* voyageEmbed: try { return await call(); } catch (e) { if (throttle) ...
\* throw new Error("Embedding failed: " + errMessage(e)); }
VoyageEmbed ==
  /\ pc = "voyageEmbed"
  /\ calls' = Append(calls, Call("embed", question))
  /\ \E r \in EmbedResponses :
       LET c == call(r)
       IN  IF ~c.threw
           THEN /\ qVec' = c.value
                /\ pc' = "retrieveContext"
                /\ UNCHANGED <<embedErr, thrown, errorMsg>>
           ELSE /\ embedErr' = c.error
                /\ UNCHANGED qVec
                /\ IF IsThrottle(c.error)
                   THEN pc' = "sleep" /\ UNCHANGED <<thrown, errorMsg>>
                   ELSE CatchBlock(Error(EmbeddingFailed \o errMessage(c.error)))
  /\ UNCHANGED <<q, question, schema, ctx, prompt, sql, first, rpcErr,
                 repairPrompt, repairedSql, second, repaired, rows>>
  /\ UNCHANGED completions
  /\ UNCHANGED cleanVars

\* await sleep(25000);
Sleep ==
  /\ pc = "sleep"
  /\ calls' = Append(calls, Call("sleep", BackoffMs))
  /\ pc' = "retry"
  /\ UNCHANGED <<q, question, schema, qVec, ctx, prompt, sql, first, rpcErr,
                 repairPrompt, repairedSql, second, repaired, rows, errorMsg,
                 embedErr, thrown>>
  /\ UNCHANGED completions
  /\ UNCHANGED cleanVars

\* return await call();   (inside the catch block of voyageEmbed)
Retry ==
  /\ pc = "retry"
  /\ calls' = Append(calls, Call("embed", question))
  /\ \E r \in EmbedResponses :
       LET c == call(r)
       IN  IF ~c.threw
           THEN /\ qVec' = c.value
                /\ pc' = "retrieveContext"
                /\ UNCHANGED <<thrown, errorMsg>>
           ELSE /\ CatchBlock(c.error)
                /\ UNCHANGED qVec
  /\ UNCHANGED <<q, question, schema, ctx, prompt, sql, first, rpcErr,
                 repairPrompt, repairedSql, second, repaired, rows, embedErr>>
  /\ UNCHANGED completions
  /\ UNCHANGED cleanVars

\* const ctx = await retrieveContext(qVec, 6);
RetrieveContext ==
  /\ pc = "retrieveContext"
  /\ calls' = Append(calls, Call("match_schema", <<qVec, <<TopK>>>>))
  /\ \E r \in MatchResponses :
       IF r.threw # Undefined
       THEN CatchBlock(Error(r.threw)) /\ UNCHANGED ctx
       ELSE IF r.error # Null
       THEN CatchBlock(Error(MatchSchemaPrefix \o r.error.message))
            /\ UNCHANGED ctx
       ELSE /\ ctx' = Coalesce(r.data, <<>>)
            /\ pc' = "groqSQL"
            /\ UNCHANGED <<thrown, errorMsg>>
  /\ UNCHANGED <<q, question, schema, qVec, prompt, sql, first, rpcErr,
                 repairPrompt, repairedSql, second, repaired, rows, embedErr>>
  /\ UNCHANGED completions
  /\ UNCHANGED cleanVars

\* rpcErr && rpcErr.code && repairableCodes.has(rpcErr.code)
IsRepairable(err) ==
  /\ err # Null
  /\ err.code # Undefined
  /\ err.code # <<>>
  /\ err.code \in repairableCodes

\* if (rpcErr) { errorMsg = rpcErr.message ?? "Query failed"; }
FinalMessage(err, msg) ==
  IF err # Null THEN Coalesce(err.message, QueryFailed) ELSE msg

\* sql = cleanSql(await groqSQL(prompt)); if (guard) { sql = canonical }
Generate ==
  /\ pc = "groqSQL"
  /\ prompt' = buildPrompt(question, ctx, schema)
  /\ calls' = Append(calls, Call("complete", prompt'))
  /\ \E r \in GroqResponses :
       LET g == groqSQL(r)
       IN  IF g.threw
           THEN CatchBlock(g.error) /\ UNCHANGED <<sql, completions>>
           ELSE /\ completions' = Append(completions, g.value)
                /\ sql' = Guard(cleanSql(g.value))
                /\ pc' = "runRPC"
                /\ UNCHANGED <<thrown, errorMsg>>
  /\ UNCHANGED <<q, question, schema, qVec, ctx, first, rpcErr, repairPrompt,
                 repairedSql, second, repaired, rows, embedErr>>
  /\ UNCHANGED cleanVars

\* const first = await runRPC(sql); rows = first.data ?? [];
\* let rpcErr = first.error; then the test of the repair round, and
\* without a repair round the end of the try block
RunFirst ==
  /\ pc = "runRPC"
  /\ calls' = Append(calls, Call("execute", sql))
  /\ \E r \in ExecResponses :
       IF r.threw # Undefined
       THEN /\ CatchBlock(Error(r.threw))
            /\ UNCHANGED <<first, rows, rpcErr, repairPrompt>>
       ELSE /\ first' = r
            /\ rows' = Coalesce(r.data, <<>>)
            /\ rpcErr' = r.error
            /\ UNCHANGED thrown
            /\ IF IsRepairable(r.error)
               THEN /\ repairPrompt' =
                         buildRepairPrompt(sql, r.error, schema, question)
                    /\ pc' = "repairGroq"
                    /\ UNCHANGED errorMsg
               ELSE /\ errorMsg' = FinalMessage(r.error, errorMsg)
                    /\ pc' = "done"
                    /\ UNCHANGED repairPrompt
  /\ UNCHANGED <<q, question, schema, qVec, ctx, prompt, sql, repairedSql,
                 second, repaired, embedErr>>
  /\ UNCHANGED completions
  /\ UNCHANGED cleanVars

RepairStatement_guarded(raw) == Guard(cleanSql(raw))

\* cleanSql(...) of line 264: the sanitizer alone, without the guardrail
RepairStatement(raw) == cleanSql(raw)

\* const repairedSql = cleanSql(await groqSQL(repairPrompt));
RepairGenerate ==
  /\ pc = "repairGroq"
  /\ calls' = Append(calls, Call("complete", repairPrompt))
  /\ \E r \in GroqResponses :
       LET g == groqSQL(r)
       IN  IF g.threw
           THEN CatchBlock(g.error) /\ UNCHANGED <<repairedSql, completions>>
           ELSE /\ completions' = Append(completions, g.value)
                /\ repairedSql' = RepairStatement(g.value)
                /\ pc' = "repairRun"
                /\ UNCHANGED <<thrown, errorMsg>>
  /\ UNCHANGED <<q, question, schema, qVec, ctx, prompt, sql, first, rpcErr,
                 repairPrompt, second, repaired, rows, embedErr>>
  /\ UNCHANGED cleanVars

SecondOutcome_alwaysRepaired(r) ==
  IF r.error = Null
  THEN [sql |-> repairedSql, rows |-> Coalesce(r.data, <<>>),
        repaired |-> TRUE, rpcErr |-> Null]
  ELSE [sql |-> repairedSql, rows |-> rows, repaired |-> TRUE,
        rpcErr |-> r.error]

SecondOutcome_keepFirstError(r) ==
  IF r.error = Null
  THEN [sql |-> repairedSql, rows |-> Coalesce(r.data, <<>>),
        repaired |-> TRUE, rpcErr |-> Null]
  ELSE [sql |-> sql, rows |-> rows, repaired |-> repaired,
        rpcErr |-> rpcErr]

SecondOutcome_keepSql(r) ==
  IF r.error = Null
  THEN [sql |-> sql, rows |-> Coalesce(r.data, <<>>),
        repaired |-> TRUE, rpcErr |-> Null]
  ELSE [sql |-> sql, rows |-> rows, repaired |-> repaired,
        rpcErr |-> r.error]

SecondOutcome_sqlOnFailure(r) ==
  IF r.error = Null
  THEN [sql |-> repairedSql, rows |-> Coalesce(r.data, <<>>),
        repaired |-> TRUE, rpcErr |-> Null]
  ELSE [sql |-> repairedSql, rows |-> rows, repaired |-> repaired,
        rpcErr |-> r.error]

\* if (!second.error) { sql = repairedSql; rows = second.data ?? [];
\*   repaired = true; rpcErr = null; } else { rpcErr = second.error; }
SecondOutcome(r) ==
  IF r.error = Null
  THEN [sql |-> repairedSql, rows |-> Coalesce(r.data, <<>>),
        repaired |-> TRUE, rpcErr |-> Null]
  ELSE [sql |-> sql, rows |-> rows, repaired |-> repaired,
        rpcErr |-> r.error]

AfterRepair_loop(err) == IF IsRepairable(err) THEN "repairGroq" ELSE "done"

\* where Page goes after the if of the repair round: to the end of the
\* try block, there is no loop
AfterRepair(err) == "done"

\* const second = await runRPC(repairedSql); ... and the end of the try block
RepairRun ==
  /\ pc = "repairRun"
  /\ calls' = Append(calls, Call("execute", repairedSql))
  /\ \E r \in ExecResponses :
       IF r.threw # Undefined
       THEN /\ CatchBlock(Error(r.threw))
            /\ UNCHANGED <<second, sql, rows, repaired, rpcErr>>
       ELSE LET o == SecondOutcome(r)
            IN  /\ second' = r
                /\ sql' = o.sql
                /\ rows' = o.rows
                /\ repaired' = o.repaired
                /\ rpcErr' = o.rpcErr
                /\ errorMsg' = FinalMessage(o.rpcErr, errorMsg)
                /\ pc' = AfterRepair(o.rpcErr)
                /\ UNCHANGED thrown
  /\ UNCHANGED <<q, question, schema, qVec, ctx, prompt, first, repairPrompt,
                 repairedSql, embedErr>>
  /\ UNCHANGED completions
  /\ UNCHANGED cleanVars

Next ==
  \/ Start
  \/ FetchLiveSchema
  \/ VoyageEmbed
  \/ Sleep
  \/ Retry
  \/ RetrieveContext
  \/ Generate
  \/ RunFirst
  \/ RepairGenerate
  \/ RepairRun

Spec == Init /\ [][Next]_vars

\* every await of Page resolves or rejects: a step that is enabled is taken
FairSpec == Spec /\ WF_vars(Next)

(***************************************************************************)
(* The sanitizer on its own: cleanSql applied once and twice to an input   *)
(* made of at most MaxTokens tokens.                                       *)
(***************************************************************************)
MaxTokens == 3

Tokens ==
  { Fence, <<"s","q","l">>, <<" ">>, <<"\n">>, <<";">>, <<"a">>,
    <<"-","-"," ","P","a","r","a","m",":"," ","x">> }

RECURSIVE Concat(_)
Concat(ts) == IF ts = <<>> THEN <<>> ELSE Head(ts) \o Concat(Tail(ts))

TokenInputs ==
  UNION { { Concat(ts) : ts \in [1..n -> Tokens] } : n \in 0..MaxTokens }

\* an opening fence: bare, with a language tag and a line break, with a
\* line break
Openings ==
  { Fence, Fence \o <<"s","q","l","\n">>, Fence \o <<"\n">> }

Closings == { Fence, <<"\n">> \o Fence }

\* statements as a model returns them, one of them on two lines
InnerStatements ==
  { <<"a">>,
    <<"S","E","L","E","C","T"," ","1">>,
    <<"S","E","L","E","C","T"," ","a","\n","F","R","O","M"," ","t">> }

FencedInputs ==
  { o \o i \o c : o \in Openings, i \in InnerStatements, c \in Closings }

\* the string literal ';'
SemiLiteral == <<"'",";","'">>

Bodies ==
  { <<"a">>, <<"S","E","L","E","C","T"," ">> \o SemiLiteral }

\* runs of statement terminators, with white space between and after them
Tails ==
  { <<";">>, <<";",";">>, <<";"," ">>, <<";"," ",";">>, <<";","\n",";","\n">> }

TerminatedInputs == { b \o t : b \in Bodies, t \in Tails }

Inputs == TokenInputs \cup FencedInputs \cup TerminatedInputs

PageIdle == PageInit /\ q = QueryParam(FALSE, Undefined)

CleanInit ==
  /\ x \in Inputs
  /\ once = <<>>
  /\ twice = <<>>
  /\ cpc = "input"

ApplyOnce ==
  /\ cpc = "input"
  /\ once' = cleanSql(x)
  /\ cpc' = "once"
  /\ UNCHANGED <<x, twice>>
  /\ UNCHANGED pageVars

ApplyTwice ==
  /\ cpc = "once"
  /\ twice' = cleanSql(once)
  /\ cpc' = "twice"
  /\ UNCHANGED <<x, once>>
  /\ UNCHANGED pageVars

NextClean == ApplyOnce \/ ApplyTwice

InitClean == PageIdle /\ CleanInit

SpecClean == InitClean /\ [][NextClean]_vars

(***************************************************************************)
(* Properties.                                                             *)
(***************************************************************************)
\* the statements handed to the executor so far, in order
Executed == SelectSeq(calls, LAMBDA c : c.op = "execute")

\* the codes for which the repair round is specified
SpecRepairable ==
  { <<"4","2","7","0","3">>, <<"4","2","P","0","1">>,
    <<"4","2","6","0","1">>, <<"4","2","8","8","3">> }

\* the first execution has returned a database-reported error
FirstFailed == first # NoReply /\ first.error # Null

FirstRepairable == FirstFailed /\ first.error.code \in SpecRepairable

\* the execution of the repaired statement has returned a database error
SecondFailed == second # NoReply /\ second.error # Null

\* the throttle patterns of the Embedding Client, case-insensitive
ThrottlePattern(m) ==
  LET l == toLowerCase(m)
  IN  \/ includes(l, <<"4","2","9">>)
      \/ includes(l, <<"r","a","t","e">>)
      \/ includes(l, <<"r","e","d","u","c","e","d"," ","r","a","t","e">>)
      \/ includes(l, <<"p","a","y","m","e","n","t"," ","m","e","t","h","o","d">>)

\* C1 as stated: after a first execution error with a repairable code there
\* is exactly one further completion call followed by one further execution;
\* after an error with any other code (or none) there is no further
\* completion call and no further execution and errorMsg is the message of
\* the first execution's error.
C1_Original ==
  (pc = "done" /\ FirstFailed) =>
    /\ FirstRepairable =>
         (Count("complete") = 2 /\ Count("execute") = 2)
    /\ ~FirstRepairable =>
         /\ Count("complete") = 1
         /\ Count("execute") = 1
         /\ errorMsg = first.error.message

\* C1 amended: after a first execution error with a repairable code there is
\* exactly one further completion call, and exactly one further execution
\* when that completion call returns a statement, none when it throws; after
\* an error with any other code (or none) there is no further completion
\* call and no further execution and errorMsg is the message of the first
\* execution's error.
C1_RepairAttempts ==
  (pc = "done" /\ FirstFailed) =>
    /\ FirstRepairable =>
         /\ Count("complete") = 2
         /\ Count("execute") = (IF repairedSql # Undefined THEN 2 ELSE 1)
    /\ ~FirstRepairable =>
         /\ Count("complete") = 1
         /\ Count("execute") = 1
         /\ errorMsg = first.error.message

C1_Witness ==
  /\ pc = "done"
  /\ FirstFailed
  /\ first.error.code = <<"4","2","8","8","3">>
  /\ Count("complete") = 2
  /\ Count("execute") = 2

\* C2: the repair round is one-shot: never more than two completion calls
\* nor more than two executions, and when the execution of the repaired
\* statement fails with a repairable code the run has ended.
C2_OneShot ==
  /\ Count("complete") <= 2
  /\ Count("execute") <= 2
  /\ (SecondFailed /\ second.error.code \in SpecRepairable) => pc = "done"

C2_Witness ==
  /\ pc = "done"
  /\ SecondFailed
  /\ second.error.code \in SpecRepairable
  /\ Count("complete") = 2
  /\ Count("execute") = 2

\* C3 as stated: at the end repaired is true iff sql is the sanitized output
\* of the second completion call; when sql is the first-round statement or
\* empty repaired is false; repaired never comes with a non-empty errorMsg.
C3_Original ==
  pc = "done" =>
    /\ repaired <=> (sql = repairedSql)
    /\ (sql = <<>> \/ (Len(Executed) >= 1 /\ sql = Executed[1].arg))
         => ~repaired
    /\ ~(repaired /\ errorMsg # <<>>)

\* C3 amended: at the end repaired is true iff the execution of the repaired
\* statement returned without error, and then sql is the sanitized output of
\* the second completion call (which may be the same text as the first-round
\* statement); otherwise sql is the first-round statement or empty; repaired
\* never comes with a non-empty errorMsg.
C3_Repaired ==
  pc = "done" =>
    /\ repaired <=> (second # NoReply /\ second.error = Null)
    /\ repaired => sql = repairedSql
    /\ ~repaired =>
         (sql = <<>> \/ (Len(Executed) >= 1 /\ sql = Executed[1].arg))
    /\ ~(repaired /\ errorMsg # <<>>)

C3_Witness ==
  /\ pc = "done"
  /\ repaired
  /\ sql = repairedSql
  /\ sql # Executed[1].arg
  /\ errorMsg = <<>>

\* C4: at the end, a run that failed (a stage threw, or the last execution
\* returned a database-reported error) has a non-empty errorMsg and empty
\* rows, and a run that succeeded has an empty errorMsg.
C4_OneMeaningfulResult ==
  pc = "done" =>
    IF thrown # NoError \/ rpcErr # Null
    THEN errorMsg # <<>> /\ rows = <<>>
    ELSE errorMsg = <<>>

\* C5: when the first execution fails with a repairable code and the
\* execution of the repaired statement returns a database error too, the run
\* ends with repaired false and errorMsg the message of the second error.
C5_LatestError ==
  (pc = "done" /\ FirstRepairable /\ SecondFailed) =>
    /\ ~repaired
    /\ errorMsg = second.error.message

C5_Witness ==
  /\ pc = "done"
  /\ FirstRepairable
  /\ SecondFailed
  /\ first.error.message # second.error.message
  /\ errorMsg = second.error.message
  /\ ~repaired

\* C6: when introspection, embedding, retrieval or the first completion
\* throws, no call of a later stage is made, no statement is executed, and
\* the outcome has a non-empty errorMsg, empty rows and repaired false.
C6_EarlyAbort ==
  (pc = "done" /\ thrown # NoError /\ Count("execute") = 0) =>
    /\ errorMsg # <<>>
    /\ rows = <<>>
    /\ ~repaired
    /\ Count("complete") <= 1
    /\ Count("embed") = 0 =>
         (Count("match_schema") = 0 /\ Count("complete") = 0)
    /\ Count("match_schema") = 0 => Count("complete") = 0
    /\ calls[Len(calls)].op \in
         {"fetchLiveSchema", "embed", "match_schema", "complete"}

\* C7: every run reaches its terminal outcome; no thrown failure leaves Page.
C7_Terminates == <>(pc = "done")

C7_Witness ==
  /\ pc = "done"
  /\ thrown # NoError
  /\ Count("complete") = 2
  /\ Count("execute") = 1
  /\ errorMsg = errMessage(thrown)

\* C8: when the first outbound embedding call fails with an error matching
\* a throttle pattern, there is one backoff wait and exactly one more
\* outbound call; after it either a vector has been returned or the failure
\* has ended the run; there is never a third call.
C8_ThrottleRetry ==
  (embedErr # NoError /\ ThrottlePattern(errMessage(embedErr))) =>
    /\ pc = "sleep" => (Count("embed") = 1 /\ Count("sleep") = 0)
    /\ pc = "retry" => (Count("embed") = 1 /\ Count("sleep") = 1)
    /\ pc \notin {"sleep", "retry"} =>
         /\ Count("embed") = 2
         /\ Count("sleep") = 1
         /\ \/ qVec # Undefined
            \/ /\ pc = "done"
               /\ thrown # NoError
               /\ errorMsg = errMessage(thrown)
               /\ Count("match_schema") = 0

C8_Witness ==
  /\ pc = "retrieveContext"
  /\ embedErr # NoError
  /\ ThrottlePattern(errMessage(embedErr))
  /\ ~includes(errMessage(embedErr), <<"r","a","t","e">>)
  /\ includes(toLowerCase(errMessage(embedErr)), <<"r","a","t","e">>)
  /\ Count("embed") = 2
  /\ Count("sleep") = 1
  /\ qVec = Vec1

\* C9: when the first outbound embedding call fails with an error matching
\* no throttle pattern there is no wait and no retry, and the run ends with
\* the embedding error that carries the underlying message; when the first
\* call succeeds there is one outbound call.
C9_NoRetry ==
  /\ (embedErr # NoError /\ ~ThrottlePattern(errMessage(embedErr))) =>
       /\ Count("embed") = 1
       /\ Count("sleep") = 0
       /\ pc = "done"
       /\ thrown = Error(EmbeddingFailed \o errMessage(embedErr))
       /\ errorMsg = EmbeddingFailed \o errMessage(embedErr)
  /\ (embedErr = NoError /\ qVec # Undefined) =>
       (Count("embed") = 1 /\ Count("sleep") = 0)

C9_Witness ==
  /\ pc = "done"
  /\ embedErr # NoError
  /\ ~ThrottlePattern(errMessage(embedErr))
  /\ Count("embed") = 1
  /\ errorMsg = EmbeddingFailed \o errMessage(embedErr)

\* C10: the sanitizer is idempotent: cleanSql(cleanSql(x)) = cleanSql(x).
C10_Idempotent == cpc = "twice" => twice = once

\* C11: for a statement wrapped in one opening and one closing fence, with
\* or without a language tag, also when the statement starts right after an
\* untagged opening fence, cleanSql returns the statement.
C11_FenceRemoved ==
  cpc # "input" =>
    \A o \in Openings, i \in InnerStatements, c \in Closings :
      x = o \o i \o c => once = i

\* C12: for a statement that ends in statement terminators, with white space
\* between or after them, the output of cleanSql has no trailing terminator,
\* and a terminator inside a string literal is kept.
C12_NoTrailingTerminator ==
  cpc # "input" =>
    \A b \in Bodies, t \in Tails :
      x = b \o t =>
        /\ once = <<>> \/ once[Len(once)] # ";"
        /\ includes(b, SemiLiteral) => includes(once, SemiLiteral)

\* the first-round statement as the sanitizer returned it, before the
\* guardrail
Generated == cleanSql(completions[1])

\* the bare column reference name occurs in s: the identifier name, in any
\* case, not part of a longer word and not qualified by a dot
HasBareName(s) ==
  \E i \in 1..Len(s) :
    /\ StartsAtCI(s, i, NameWord)
    /\ ~IsWordAt(s, i - 1)
    /\ ~(i > 1 /\ s[i - 1] = ".")
    /\ ~IsWordAt(s, i + Len(NameWord))

\* the derived-column name next_appointment occurs in s as a word
HasNextAppointment(s) ==
  \E i \in 1..Len(s) :
    /\ StartsAtCI(s, i, NextAppointmentWord)
    /\ ~IsWordAt(s, i - 1)
    /\ ~IsWordAt(s, i + Len(NextAppointmentWord))

\* every occurrence of name in s follows an underscore or a dot
OnlyPrefixedNames(s) ==
  \A i \in 1..Len(s) :
    StartsAtCI(s, i, NameWord) => (i > 1 /\ s[i - 1] \in {"_", "."})

\* C13: when the sanitized first-round statement contains the bare column
\* reference name or the name next_appointment, the statement handed to the
\* executor is the canonical statement; a statement whose only uses of name
\* are prefixed by an underscore or a dot is executed unchanged.
C13_Guardrail ==
  Len(Executed) >= 1 =>
    /\ (HasBareName(Generated) \/ HasNextAppointment(Generated))
         => Executed[1].arg = CanonicalSql
    /\ (OnlyPrefixedNames(Generated) /\ ~HasNextAppointment(Generated))
         => Executed[1].arg = Generated

UndefinedColumn == <<"4","2","7","0","3">>

\* C14 as stated: when the first execution returns code 42703 the outcome
\* has repaired true and a sql different from the first-attempt statement.
C14_Original ==
  (pc = "done" /\ FirstFailed /\ first.error.code = UndefinedColumn) =>
    /\ repaired
    /\ sql # Executed[1].arg

\* C14 amended: when the first execution returns code 42703 and the second
\* completion call returns a statement whose execution returns without
\* error, the outcome has repaired true and sql is that statement, different
\* from the first-attempt statement whenever the second completion differs
\* from it; in every other case repaired is false.
C14_ScenarioB ==
  (pc = "done" /\ FirstFailed /\ first.error.code = UndefinedColumn) =>
    IF second # NoReply /\ second.error = Null
    THEN /\ repaired
         /\ sql = cleanSql(completions[2])
         /\ cleanSql(completions[2]) # Executed[1].arg => sql # Executed[1].arg
    ELSE ~repaired

C14_Witness ==
  /\ pc = "done"
  /\ FirstFailed
  /\ first.error.code = UndefinedColumn
  /\ repaired
  /\ sql = cleanSql(completions[2])
  /\ sql # Executed[1].arg

\* the outbound calls without the backoff waits, by name
Ops ==
  LET c == SelectSeq(calls, LAMBDA e : e.op # "sleep")
  IN  [i \in 1..Len(c) |-> c[i].op]

IsPrefix(a, b) == Len(a) <= Len(b) /\ \A i \in 1..Len(a) : a[i] = b[i]

OrderOneEmbed ==
  <<"fetchLiveSchema", "embed", "match_schema", "complete", "execute",
    "complete", "execute">>

OrderTwoEmbeds ==
  <<"fetchLiveSchema", "embed", "embed", "match_schema", "complete",
    "execute", "complete", "execute">>

\* C15: the outbound calls of a run come in the fixed order introspection
\* (once), embedding (one or two calls), retrieval (once, topK 6),
\* completion, execution, then at most one repair completion and one repair
\* execution; a call is made only after the one before it has returned its
\* value, and no call follows a thrown failure.
C15_Sequential ==
  /\ IsPrefix(Ops, OrderOneEmbed) \/ IsPrefix(Ops, OrderTwoEmbeds)
  /\ \A i \in 1..Len(calls) :
       calls[i].op = "match_schema" =>
         (calls[i].arg[1] = Vec1 /\ calls[i].arg[2] = <<6>>)
  /\ Count("match_schema") >= 1 => qVec # Undefined
  /\ Count("execute") <= Len(completions)
  /\ Count("complete") <= Len(completions) + 1
  /\ thrown # NoError => (pc = "done" /\ Len(calls) >= 1)
  /\ (pc \notin {"start", "fetchLiveSchema"} /\ question # <<>>)
       => Count("fetchLiveSchema") = 1

C15_Witness ==
  /\ pc = "done"
  /\ Ops = OrderTwoEmbeds
  /\ Count("sleep") = 1

\* how often the canonical statement has been handed to the executor
CanonicalExecutions ==
  Cardinality({ i \in 1..Len(Executed) : Executed[i].arg = CanonicalSql })

\* C16 as stated: the statement executed in the repair round is the
\* sanitized output of the second completion call, and the canonical
\* statement is executed at most once in a run.
C16_Original ==
  /\ Len(Executed) = 2 => Executed[2].arg = cleanSql(completions[2])
  /\ CanonicalExecutions <= 1

\* C16 amended: the statement executed in the repair round is the sanitized
\* output of the second completion call, also when it contains name or
\* next_appointment; the canonical statement is never substituted for it, so
\* it is executed in the repair round only when the second completion call
\* itself returned it.
C16_NoGuardInRepair ==
  Len(Executed) = 2 =>
    /\ Executed[2].arg = cleanSql(completions[2])
    /\ repairedSql = cleanSql(completions[2])
    /\ CanonicalExecutions = 2 => cleanSql(completions[2]) = CanonicalSql

C16_Witness ==
  /\ Len(Executed) = 2
  /\ Executed[1].arg = CanonicalSql
  /\ HasBareName(Executed[2].arg)
  /\ TestBareName(Executed[2].arg)
  /\ Executed[2].arg = cleanSql(completions[2])

\* the prompts handed to the completion client so far, in order
Prompts ==
  LET c == SelectSeq(calls, LAMBDA e : e.op = "complete")
  IN  [i \in 1..Len(c) |-> c[i].arg]

\* C17: the prompt of the second completion call is not the first prompt:
\* it is a repair prompt with the statement executed in the first round, the
\* message of the first execution's error, the whitelist fetched at the
\* start of the run and the question; the catalog is fetched once.
C17_RepairPrompt ==
  Len(Prompts) = 2 =>
    /\ Prompts[2] # Prompts[1]
    /\ Prompts[2].kind = "repair"
    /\ Prompts[2].sql = Executed[1].arg
    /\ Prompts[2].dbError = first.error.message
    /\ Prompts[2].schemaWhitelist = schema
    /\ Prompts[2].schemaWhitelist = Prompts[1].schemaWhitelist
    /\ Prompts[2].question = question
    /\ Count("fetchLiveSchema") = 1

C17_Witness ==
  /\ Len(Prompts) = 2
  /\ Executed[1].arg = CanonicalSql
  /\ cleanSql(completions[1]) # CanonicalSql
  /\ Prompts[2].sql = CanonicalSql
  /\ Prompts[2].dbError = <<"n","o"," ","c","o","l","u","m","n">>
  /\ Prompts[2].schemaWhitelist = Schema1

\* C18 as stated: sql becomes the repaired statement only when its
\* execution succeeds; when that execution returns an error, sql is the
\* first-round statement, errorMsg is the error of the repaired statement,
\* and sql is not the statement whose execution produced that error.
C18_Original ==
  /\ (pc = "done" /\ Len(Executed) = 2 /\ ~repaired)
       => sql = Executed[1].arg
  /\ (pc = "done" /\ SecondFailed) =>
       /\ sql = Executed[1].arg
       /\ errorMsg = second.error.message
       /\ sql # Executed[2].arg

\* C18 amended: sql becomes the repaired statement only when its execution
\* succeeds; when that execution returns an error, sql is the first-round
\* statement and errorMsg is the error of the repaired statement, and sql
\* is not the statement whose execution produced that error unless the
\* second completion returned the first-round statement again.
C18_FinalSqlOnFailure ==
  /\ (pc = "done" /\ Len(Executed) = 2 /\ ~repaired)
       => sql = Executed[1].arg
  /\ (pc = "done" /\ SecondFailed) =>
       /\ sql = Executed[1].arg
       /\ errorMsg = second.error.message
       /\ (sql # Executed[2].arg) <=>
            (cleanSql(completions[2]) # Executed[1].arg)

C18_Witness ==
  /\ pc = "done"
  /\ SecondFailed
  /\ sql = Executed[1].arg
  /\ sql # Executed[2].arg
  /\ errorMsg = second.error.message
  /\ errorMsg # <<>>

\* C19: when the first execution fails with a repairable code and the
\* completion call or the executor then throws in the repair round, the run
\* ends with repaired false, sql the first-round statement, no rows, and
\* errorMsg the message of the thrown failure.
C19_ThrowInRepair ==
  (pc = "done" /\ FirstRepairable /\ thrown # NoError) =>
    /\ ~repaired
    /\ sql = Executed[1].arg
    /\ rows = <<>>
    /\ errorMsg = errMessage(thrown)

C19_Witness ==
  /\ pc = "done"
  /\ FirstRepairable
  /\ thrown = Error(NoSqlFromLlm)
  /\ first.error.message # <<>>
  /\ errorMsg = NoSqlFromLlm
  /\ errorMsg # first.error.message
  /\ Count("complete") = 2
  /\ Count("execute") = 1

\* the query parameter is absent or consists of white space only
BlankQuery ==
  q.value = Undefined \/ \A i \in 1..Len(q.value) : q.value[i] \in SpaceChars

\* C20: when the question is empty after trimming, no outbound call is ever
\* made and the outcome is sql empty, rows empty, errorMsg empty and
\* repaired false.
C20_EmptyQuestion ==
  BlankQuery =>
    /\ calls = <<>>
    /\ pc \in {"start", "done"}
    /\ sql = <<>>
    /\ rows = <<>>
    /\ errorMsg = <<>>
    /\ ~repaired

C20_Witness ==
  /\ pc = "done"
  /\ q.value = <<" ","\n">>
  /\ question = <<>>
  /\ calls = <<>>

====
